---- MODULE Spec2Model ----
(***************************************************************************)
(* Contact-form backend (xWalfie-SMR/portfolio-backend).                   *)
(*                                                                         *)
(* The repository holds six versions of the POST /api/contact handler.     *)
(* One of them is deployed in a run; `variant` says which:                 *)
(*   "ServerJs"   src/server.js:51-214       Groq, gist policy, flag       *)
(*   "Part001"    src/unnamed/part_001:58-224 axios, gist policy, flag     *)
(*   "Nodemailer" src/server.js:257-290      SMTP only                     *)
(*   "ResendOnly" src/unnamed/part_000:81-149 captcha + Resend             *)
(*   "OpenAI"     src/unnamed/part_000:190-288 captcha + bare-token filter *)
(*   "Part002"    src/unnamed/part_002:42-148 captcha + bare-token filter  *)
(*                                                                         *)
(* A request runs synchronously up to its first await; every later action  *)
(* is the completion of one awaited external call together with all the    *)
(* code the handler runs until the next await or the end.                  *)
(*                                                                         *)
(* Specifications:                                                         *)
(*   Spec        contact requests one after another and toggle calls, for  *)
(*               every version; log POSTs are sent and never settle        *)
(*   SpecRoutes  src/server.js: one contact request, toggles, healthz      *)
(*   SpecLogger  src/server.js: one contact request with the console hook  *)
(*               of src/unnamed/part_000:1-35 and its log POSTs settling   *)
(*   SpecTwo     src/server.js: two contact requests in flight at once     *)
(***************************************************************************)
EXTENDS Integers, Sequences, FiniteSets, TLC

\* ---------------------------------------------------------------- bounds
MaxRequests == 2
MaxToggles == 2
MaxLogRetries == 2

\* ------------------------------------------------------ program constants
MAX_MESSAGE_LENGTH == 2000
\* recaptchaData.score < 0.5, scores kept in tenths
ScoreThreshold == 5

Undefined == "<undefined>"

Variants == {"ServerJs", "Part001", "Nodemailer", "ResendOnly", "OpenAI", "Part002"}
\* the versions with the recaptchaEnabled flag and the unified jsonResponse
ToggleVariants == {"ServerJs", "Part001"}
\* the versions whose HTTP client is axios (rejects on a non-2xx reply)
AxiosVariants == {"Part001"}
\* the versions that compare the classifier's reply with the bare token
BareTokenVariants == {"OpenAI", "Part002"}
ClassifierVariants == ToggleVariants \cup BareTokenVariants
\* the versions that validate the email and the message length
ValidatingVariants == Variants \ {"Nodemailer"}

\* process.env.MODE || "SECURE"; "DEV" stands for any other configured value
Modes == {"SECURE", "LAB", "DEV"}

\* --------------------------------------------------------- request bodies
Str(chars) == [type |-> "string", text |-> chars]
Arr(chars) == [type |-> "array", text |-> chars]
NoEmail == [type |-> "undefined", text |-> <<>>]

mailinator == <<"m","a","i","l","i","n","a","t","o","r",".","c","o","m">>
Mailinator == <<"M","a","i","l","i","n","a","t","o","r",".","c","o","m">>

\* the entry of the disposable-email-domains package used by the scenarios
disposableDomains == {mailinator}

Emails ==
  { NoEmail,
    Str(<<>>),
    Str(<<"b","o","@","e","x",".","c","o">>),
    Str(<<"b","o","@">> \o mailinator),
    Str(<<"b","o","@">> \o Mailinator),
    Str(<<"b","o">>),
    Str(<<"b","o","@","e","x">>),
    Str(<<"b"," ","o","@","e","x",".","c","o">>),
    Str(<<"a","@","b","@">> \o mailinator),
    Arr(<<"b","o","@","e","x",".","c","o">>),
    Arr(<<"b","o","@">> \o mailinator),
    Arr(<<"b","o">>) }

Names == {"", "Bo"}
Tokens == {Undefined, "tok"}
MessageLengths == {0, MAX_MESSAGE_LENGTH, MAX_MESSAGE_LENGTH + 1}
Messages ==
  {[type |-> "undefined", length |-> 0]}
    \cup {[type |-> "string", length |-> n] : n \in MessageLengths}

Bodies == [name : Names, email : Emails, message : Messages, recaptchaToken : Tokens]

NoBody == [name |-> Undefined, email |-> NoEmail,
           message |-> [type |-> "undefined", length |-> 0],
           recaptchaToken |-> Undefined]

\* ----------------------------------------------------- JavaScript helpers
\* !x for the values a field can hold
FalsyStr(s) == s = Undefined \/ s = ""
FalsyEmail(e) == e.type = "undefined" \/ (e.type = "string" /\ e.text = <<>>)
FalsyMessage(m) == m.type = "undefined" \/ m.length = 0

IsSpace(c) == c = " "

Lower(c) == IF c = "M" THEN "m" ELSE c

toLowerCase(s) == [i \in 1..Len(s) |-> Lower(s[i])]

AtPositions(s) == {i \in 1..Len(s) : s[i] = "@"}

Min(S) == CHOOSE x \in S : \A y \in S : x <= y

\* email.split("@")[1]: the piece between the first and the second "@"
SplitAt1(s) ==
  IF AtPositions(s) = {} THEN <<>>
  ELSE LET first == Min(AtPositions(s))
           rest == {i \in AtPositions(s) : i > first}
           last == IF rest = {} THEN Len(s) ELSE Min(rest) - 1
       IN SubSeq(s, first + 1, last)

HasSplit1(s) == AtPositions(s) # {}


\* ------------------------------------------------------------- validators
\* /^[^\s@]+@[^\s@]+\.[^\s@]+$/.test(email); test() coerces its argument to
\* a string, and a one-element array coerces to its element
validateEmailFormat(email) ==
  LET s == email.text
  IN /\ Cardinality(AtPositions(s)) = 1
     /\ \A i \in 1..Len(s) : ~IsSpace(s[i])
     /\ LET at == Min(AtPositions(s))
        IN /\ at > 1
           /\ \E j \in (at + 2)..(Len(s) - 1) : s[j] = "."

\* email.split is not a function unless email is a string: TypeError
isDisposableEmailThrows(email) == email.type # "string"

isDisposableEmailNoLower(email) ==
  /\ HasSplit1(email.text)
  /\ SplitAt1(email.text) \in disposableDomains

isDisposableEmail(email) ==
  /\ HasSplit1(email.text)
  /\ toLowerCase(SplitAt1(email.text)) \in disposableDomains

MissingFieldsNoMessage(v, b) ==
  IF v = "Nodemailer"
  THEN FalsyStr(b.name) \/ FalsyEmail(b.email)
  ELSE FalsyStr(b.name) \/ FalsyEmail(b.email) \/ FalsyStr(b.recaptchaToken)

\* !name || !email || !message (|| !recaptchaToken)
MissingFields(v, b) ==
  IF v = "Nodemailer"
  THEN FalsyStr(b.name) \/ FalsyEmail(b.email) \/ FalsyMessage(b.message)
  ELSE \/ FalsyStr(b.name) \/ FalsyEmail(b.email) \/ FalsyMessage(b.message)
       \/ FalsyStr(b.recaptchaToken)

MessageTooLongOffByOne(m) == m.length > MAX_MESSAGE_LENGTH + 1

\* message.length > MAX_MESSAGE_LENGTH
MessageTooLong(m) == m.length > MAX_MESSAGE_LENGTH

\* --------------------------------------------- outcomes of external calls
CaptchaOutcomes ==
  { [net |-> "throw", bodyOk |-> FALSE, success |-> FALSE, hasScore |-> FALSE, score |-> 0],
    [net |-> "ok", bodyOk |-> FALSE, success |-> FALSE, hasScore |-> FALSE, score |-> 0],
    [net |-> "ok", bodyOk |-> TRUE, success |-> FALSE, hasScore |-> FALSE, score |-> 0],
    [net |-> "ok", bodyOk |-> TRUE, success |-> TRUE, hasScore |-> FALSE, score |-> 0] }
  \cup { [net |-> "ok", bodyOk |-> TRUE, success |-> TRUE, hasScore |-> TRUE, score |-> n] :
           n \in {ScoreThreshold - 1, ScoreThreshold, 9} }

NoCaptcha == [net |-> "none", bodyOk |-> FALSE, success |-> FALSE, hasScore |-> FALSE, score |-> 0]

\* the call rejected, or recaptchaRes.json() did
CaptchaThrows(o) == o.net = "throw" \/ ~o.bodyOk

\* !recaptchaData.success || recaptchaData.score < 0.5  (undefined < 0.5 is false)
CaptchaRejects(o) == ~o.success \/ (o.hasScore /\ o.score < ScoreThreshold)

FetchOutcomes == {"ok", "non2xx", "throw"}

\* the classifier's message content, before trim()
ReplyTexts ==
  { "", "ALLOW", "DENY", "allow", "ALLOW\n", "maybe?", "{}", "null",
    "{\"decision\":\"ALLOW\"}",
    "{\"decision\":\"ALLOW\",\"reason\":\"looks legitimate\"}",
    "{\"decision\":\"DENY\",\"reason\":\"spam\"}",
    "{\"decision\":\"MAYBE\"}" }

\* texts the model wraps in a json code fence
FencedTexts ==
  { "{\"decision\":\"ALLOW\"}", "{\"decision\":\"DENY\",\"reason\":\"spam\"}", "maybe?" }

Contents ==
  { [defined |-> TRUE, fence |-> FALSE, text |-> t] : t \in ReplyTexts }
  \cup { [defined |-> TRUE, fence |-> TRUE, text |-> t] : t \in FencedTexts }

NoContent == [defined |-> FALSE, fence |-> FALSE, text |-> ""]

ClassifierOutcomes ==
  { [net |-> "throw", bodyOk |-> FALSE, content |-> NoContent],
    [net |-> "non2xx", bodyOk |-> TRUE, content |-> NoContent],
    [net |-> "ok", bodyOk |-> FALSE, content |-> NoContent],
    [net |-> "ok", bodyOk |-> TRUE, content |-> NoContent] }
  \cup { [net |-> "ok", bodyOk |-> TRUE, content |-> c] : c \in Contents }

NoClassifier == [net |-> "none", bodyOk |-> FALSE, content |-> NoContent]

DispatchOutcomes == {"ok", "non2xx", "throw"}

\* ------------------------------------------------- classifier reply parsing
\* String.prototype.trim on the reply texts
trim(t) == IF t = "ALLOW\n" THEN "ALLOW" ELSE t

\* String.prototype.toUpperCase on the reply texts
toUpperCase(t) ==
  CASE t = "allow" -> "ALLOW"
    [] t = "{\"decision\":\"ALLOW\"}" -> "{\"DECISION\":\"ALLOW\"}"
    [] t = "{\"decision\":\"ALLOW\",\"reason\":\"looks legitimate\"}" ->
         "{\"DECISION\":\"ALLOW\",\"REASON\":\"LOOKS LEGITIMATE\"}"
    [] t = "{\"decision\":\"DENY\",\"reason\":\"spam\"}" ->
         "{\"DECISION\":\"DENY\",\"REASON\":\"SPAM\"}"
    [] t = "{\"decision\":\"MAYBE\"}" -> "{\"DECISION\":\"MAYBE\"}"
    [] t = "maybe?" -> "MAYBE?"
    [] t = "null" -> "NULL"
    [] OTHER -> t

\* JSON.parse on the reply texts
JSONParse(t) ==
  CASE t = "{}" -> [kind |-> "object", decision |-> Undefined, reason |-> Undefined]
    [] t = "null" -> [kind |-> "null", decision |-> Undefined, reason |-> Undefined]
    [] t = "{\"decision\":\"ALLOW\"}" ->
         [kind |-> "object", decision |-> "ALLOW", reason |-> Undefined]
    [] t = "{\"decision\":\"ALLOW\",\"reason\":\"looks legitimate\"}" ->
         [kind |-> "object", decision |-> "ALLOW", reason |-> "looks legitimate"]
    [] t = "{\"decision\":\"DENY\",\"reason\":\"spam\"}" ->
         [kind |-> "object", decision |-> "DENY", reason |-> "spam"]
    [] t = "{\"decision\":\"MAYBE\"}" ->
         [kind |-> "object", decision |-> "MAYBE", reason |-> Undefined]
    [] OTHER -> [kind |-> "SyntaxError", decision |-> Undefined, reason |-> Undefined]

\* aiData.choices?.[0]?.message?.content?.trim() || "{}", then
\* content.replace(...) strips a leading json fence and a trailing fence
ContentText(c) ==
  IF ~c.defined \/ trim(c.text) = "" THEN "{}" ELSE trim(c.text)

\* aiData.choices?.[0]?.message?.content?.trim().toUpperCase() as compared
\* with "ALLOW": a fenced text is never the bare token
aiReplyOf(c) ==
  IF ~c.defined THEN Undefined
  ELSE IF c.fence THEN "<fenced>"
  ELSE toUpperCase(trim(c.text))


\* ------------------------------------------------------------------ state
VARIABLES
  variant,          \* which version of the handler is deployed
  MODE,             \* process.env.MODE || "SECURE"
  recaptchaEnabled, \* let recaptchaEnabled = true
  toggles,          \* POST /api/toggle-recaptcha calls served
  reqCount,         \* POST /api/contact requests received
  pc,               \* where the current request is suspended
  body,             \* req.body of the current request
  captchaBranch,    \* branch taken at the "verify recaptcha" block
  calls,            \* external calls issued for the current request, in order
  captchaRes,       \* what the verification call returned
  fetches,          \* the two policy fetches inside Promise.all
  aiConfig,         \* { model, rule }
  aiOut,            \* what the classifier call returned
  jsonResponse,     \* the unified response object
  dispatchRes,      \* what the mail call returned
  responses,        \* res.status(..).json(..) calls made for the current request
  toggleResponse,   \* body of the last /api/toggle-recaptcha response
  served,           \* bodies the two gist fetches of the current request returned
  handled,          \* how replies carrying each decision have been handled so far
  healthzResponse,  \* body of the last GET /healthz response
  logSettled,       \* log POSTs that have settled (answered or rejected)
  logRetries,       \* log POSTs sent from sendLog's catch block
  other             \* a second contact request in flight, while it is not running

vars == <<variant, MODE, recaptchaEnabled, toggles, reqCount, pc, body,
          captchaBranch, calls, captchaRes, fetches, aiConfig, aiOut,
          jsonResponse, dispatchRes, responses, toggleResponse,
          served, handled, healthzResponse, logSettled, logRetries, other>>

NoFetches == [model |-> "none", rule |-> "none"]
NoConfig == [model |-> <<>>, rule |-> <<>>]
NoServed == [model |-> <<>>, rule |-> <<>>]
NoJson == [aiDecision |-> Undefined, aiReason |-> Undefined,
           success |-> FALSE, emailSent |-> FALSE]

\* the handler locals of a request that has not been received
NoRequest == [pc |-> "idle"]

Init ==
  /\ variant \in Variants
  /\ MODE \in Modes
  /\ recaptchaEnabled = TRUE
  /\ toggles = 0
  /\ reqCount = 0
  /\ pc = "idle"
  /\ body = NoBody
  /\ captchaBranch = "none"
  /\ calls = <<>>
  /\ captchaRes = NoCaptcha
  /\ fetches = NoFetches
  /\ aiConfig = NoConfig
  /\ aiOut = NoClassifier
  /\ jsonResponse = NoJson
  /\ dispatchRes = "none"
  /\ responses = <<>>
  /\ toggleResponse = [sent |-> FALSE, recaptchaEnabled |-> TRUE]
  /\ served = NoServed
  /\ handled = [ALLOW |-> {}, DENY |-> {}]
  /\ healthzResponse = "none"
  /\ logSettled = 0
  /\ logRetries = 0
  /\ other = NoRequest

\* ------------------------------------------------------ response emission
ErrorBody(msg) == [error |-> msg]

\* res.json(jsonResponse): JSON.stringify drops the undefined properties
JsonBody(jr) ==
  LET base == [success |-> jr.success, emailSent |-> jr.emailSent]
      dec == IF jr.aiDecision = Undefined THEN base
             ELSE [f \in DOMAIN base \cup {"aiDecision"} |->
                     IF f = "aiDecision" THEN jr.aiDecision ELSE base[f]]
  IN IF jr.aiReason = Undefined THEN dec
     ELSE [f \in DOMAIN dec \cup {"aiReason"} |->
             IF f = "aiReason" THEN jr.aiReason ELSE dec[f]]

\* return res.status(s).json(b)
Respond(s, b) ==
  /\ responses' = Append(responses, [status |-> s, body |-> b])
  /\ pc' = "done"

\* await fetch(...) / axios.post(...) of the next stage
Issue(stage) ==
  /\ calls' = Append(calls, stage)
  /\ pc' = stage
  /\ responses' = responses

IssuePolicySequential ==
  /\ calls' = Append(calls, "model")
  /\ fetches' = [model |-> "pending", rule |-> "none"]
  /\ pc' = "policy"
  /\ responses' = responses

\* fetchAIConfig(): both requests are created before Promise.all is awaited
IssuePolicy ==
  /\ calls' = calls \o <<"model", "rule">>
  /\ fetches' = [model |-> "pending", rule |-> "pending"]
  /\ pc' = "policy"
  /\ responses' = responses

MessageTooLongError(v) ==
  IF v = "ResendOnly" THEN "Message too long (max 2000 chars)"
  ELSE "Message too long (max 2000)"

\* ---------------------------------------------------------------- actions
\* POST /api/contact up to the first await
Receive(b) ==
  /\ UNCHANGED <<healthzResponse, logSettled, logRetries, other>>
  /\ pc = "idle"
  /\ reqCount < MaxRequests
  /\ reqCount' = reqCount + 1
  /\ body' = b
  /\ captchaRes' = NoCaptcha
  /\ aiConfig' = NoConfig
  /\ aiOut' = NoClassifier
  /\ jsonResponse' = NoJson
  /\ dispatchRes' = "none"
  /\ served' = NoServed
  /\ UNCHANGED <<variant, MODE, recaptchaEnabled, toggles, toggleResponse,
                 handled>>
  /\ LET fresh == <<>>
         reply(s, bdy) == /\ responses' = <<[status |-> s, body |-> bdy]>>
                          /\ pc' = "done"
                          /\ calls' = fresh
                          /\ fetches' = NoFetches
                          /\ captchaBranch' = "none"
         issue(stage, branch) == /\ responses' = <<>>
                                 /\ pc' = stage
                                 /\ calls' = <<stage>>
                                 /\ fetches' = NoFetches
                                 /\ captchaBranch' = branch
     IN IF MissingFields(variant, b)
        THEN reply(400, ErrorBody("Missing fields"))
        ELSE IF variant = "Nodemailer"
        THEN issue("dispatch", "none")
        ELSE IF ~validateEmailFormat(b.email)
        THEN reply(400, ErrorBody("Invalid or disposable email"))
        ELSE IF isDisposableEmailThrows(b.email)
        THEN /\ responses' = <<>>
             /\ pc' = "escaped"
             /\ calls' = fresh
             /\ fetches' = NoFetches
             /\ captchaBranch' = "none"
        ELSE IF isDisposableEmail(b.email)
        THEN reply(400, ErrorBody("Invalid or disposable email"))
        ELSE IF MessageTooLong(b.message)
        THEN reply(400, ErrorBody(MessageTooLongError(variant)))
        ELSE IF variant \in ToggleVariants
        THEN IF recaptchaEnabled /\ MODE = "SECURE"
             THEN issue("captcha", "verify")
             ELSE /\ responses' = <<>>
                  /\ pc' = "policy"
                  /\ calls' = <<"model", "rule">>
                  /\ fetches' = [model |-> "pending", rule |-> "pending"]
                  /\ captchaBranch' = IF MODE = "LAB" THEN "lab" ELSE "disabled"
        ELSE issue("captcha", "verify")

\* the siteverify call settles
CaptchaReturn(o) ==
  /\ UNCHANGED <<healthzResponse, logSettled, logRetries, other>>
  /\ pc = "captcha"
  /\ captchaRes' = o
  /\ UNCHANGED <<variant, MODE, recaptchaEnabled, toggles, reqCount, body,
                 captchaBranch, aiConfig, aiOut, jsonResponse, dispatchRes,
                 toggleResponse, served, handled>>
  /\ IF variant \in ToggleVariants
     THEN \* the result is only logged; a rejection is caught and logged too
          IssuePolicy
     ELSE /\ UNCHANGED fetches
          /\ IF CaptchaThrows(o)
             THEN Respond(500, ErrorBody("Recaptcha verification failed")) /\ UNCHANGED calls
             ELSE IF CaptchaRejects(o)
             THEN Respond(400, ErrorBody("Failed recaptcha verification")) /\ UNCHANGED calls
             ELSE IF variant = "ResendOnly"
             THEN Issue("dispatch")
             ELSE Issue("classifier")

\* does this settled fetch reject Promise.all
FetchThrows(v, o) == o = "throw" \/ (v \in AxiosVariants /\ o = "non2xx")

\* revisions of a gist document the raw URL may serve: an earlier and a
\* later one
Revisions == {1, 2}

\* the body a gist request settles with: a revision of the document (with
\* its final newline), or the error page of a non-2xx reply
RemoteBody(which, o, rev) ==
  CASE o = "ok" -> <<which, ToString(rev), "\n">>
    [] o = "non2xx" -> <<"404: Not Found">>
    [] OTHER -> <<>>

\* (await res.text()).trim() / String(res.data).trim()
FetchText(raw) ==
  IF Len(raw) > 0 /\ raw[Len(raw)] = "\n" THEN SubSeq(raw, 1, Len(raw) - 1) ELSE raw

AiConfigSwapped(texts) ==
  [model |-> FetchText(texts.rule), rule |-> FetchText(texts.model)]

\* const [modelRes, ruleRes] = ...; return { model, rule }
AiConfigOf(texts) ==
  [model |-> FetchText(texts.model), rule |-> FetchText(texts.rule)]

\* one of the two gist fetches settles
PolicyFetchReturn(which, o, rev) ==
  /\ UNCHANGED <<healthzResponse, logSettled, logRetries, other>>
  /\ pc = "policy"
  /\ fetches[which] = "pending"
  /\ o # "ok" => rev = 1
  /\ fetches' = [fetches EXCEPT ![which] = o]
  /\ served' = [served EXCEPT ![which] = RemoteBody(which, o, rev)]
  /\ UNCHANGED <<variant, MODE, recaptchaEnabled, toggles, reqCount, body,
                 captchaBranch, captchaRes, aiOut, jsonResponse, dispatchRes,
                 toggleResponse, handled>>
  /\ IF FetchThrows(variant, o)
     THEN /\ Respond(500, ErrorBody("Failed to load AI config"))
          /\ UNCHANGED <<calls, aiConfig>>
     ELSE IF \E w \in {"model", "rule"} : fetches'[w] = "pending"
     THEN UNCHANGED <<pc, calls, aiConfig, responses>>
     ELSE /\ aiConfig' = AiConfigOf(served')
          /\ Issue("classifier")


\* the completion call rejected, or reading its body did
ClassifierThrows(v, o) ==
  \/ o.net = "throw"
  \/ v \in AxiosVariants /\ o.net = "non2xx"
  \/ v \notin AxiosVariants /\ ~o.bodyOk

\* const jsonResponse = { aiDecision, aiReason, success, emailSent: false }
NewJsonResponse(aiAnswer) ==
  [aiDecision |-> aiAnswer.decision, aiReason |-> aiAnswer.reason,
   success |-> (aiAnswer.decision = "ALLOW"), emailSent |-> FALSE]

\* the decision a reply carries, whichever of the two shapes it has
DecisionOf(c) ==
  IF ~c.defined THEN "MALFORMED"
  ELSE IF ~c.fence /\ trim(c.text) \in {"ALLOW", "DENY"} THEN trim(c.text)
  ELSE IF JSONParse(trim(c.text)).decision \in {"ALLOW", "DENY"}
  THEN JSONParse(trim(c.text)).decision
  ELSE "MALFORMED"

\* what the handler did with a reply: the stage it went on to, or the
\* status and success/emailSent fields it answered with
Handling(nextPc, resps) ==
  LET flag(b, f) == IF f \notin DOMAIN b THEN "absent"
                    ELSE IF b[f] THEN "true" ELSE "false"
  IN IF nextPc = "done"
     THEN [next |-> "done", status |-> resps[Len(resps)].status,
           success |-> flag(resps[Len(resps)].body, "success"),
           emailSent |-> flag(resps[Len(resps)].body, "emailSent")]
     ELSE [next |-> nextPc, status |-> 0, success |-> "pending",
           emailSent |-> "pending"]

\* the chat-completion call settles
ClassifierReturn(o) ==
  /\ UNCHANGED <<healthzResponse, logSettled, logRetries, other>>
  /\ pc = "classifier"
  /\ aiOut' = o
  /\ UNCHANGED <<variant, MODE, recaptchaEnabled, toggles, reqCount, body,
                 captchaBranch, captchaRes, fetches, aiConfig, dispatchRes,
                 toggleResponse, served>>
  /\ IF variant \in ToggleVariants
     THEN IF ClassifierThrows(variant, o)
          THEN /\ Respond(500, ErrorBody("AI filter failed"))
               /\ UNCHANGED <<calls, jsonResponse>>
          ELSE LET aiAnswer == JSONParse(ContentText(o.content))
               IN IF aiAnswer.kind = "SyntaxError"
                  THEN /\ Respond(500, ErrorBody("AI validation failed"))
                       /\ UNCHANGED <<calls, jsonResponse>>
                  ELSE IF aiAnswer.kind = "null"
                  THEN \* aiAnswer.decision on null: TypeError, outer catch
                       /\ Respond(500, ErrorBody("AI filter failed"))
                       /\ UNCHANGED <<calls, jsonResponse>>
                  ELSE /\ jsonResponse' = NewJsonResponse(aiAnswer)
                       /\ IF aiAnswer.decision = "ALLOW"
                          THEN Issue("dispatch")
                          ELSE /\ Respond(200, JsonBody(jsonResponse'))
                               /\ UNCHANGED calls
     ELSE /\ UNCHANGED jsonResponse
          /\ IF ClassifierThrows(variant, o)
             THEN Respond(500, ErrorBody("AI validation failed")) /\ UNCHANGED calls
             ELSE IF variant = "Part002"
             THEN \* aiReply is not declared: ReferenceError, caught below
                  Respond(500, ErrorBody("AI validation failed")) /\ UNCHANGED calls
             ELSE IF aiReplyOf(o.content) # "ALLOW"
             THEN Respond(422, ErrorBody("Message rejected by AI filter")) /\ UNCHANGED calls
             ELSE Issue("dispatch")
  /\ handled' =
       IF o.net = "ok" /\ o.bodyOk /\ DecisionOf(o.content) \in {"ALLOW", "DENY"}
       THEN [handled EXCEPT ![DecisionOf(o.content)] = @ \cup {Handling(pc', responses')}]
       ELSE handled

DispatchFails(o) == o # "ok"

AfterDispatchKeepsSuccess(v, jr, o) ==
  IF v = "ServerJs"
  THEN CASE o = "ok" -> [jr EXCEPT !.emailSent = TRUE]
         [] o = "non2xx" -> [jr EXCEPT !.success = FALSE, !.emailSent = FALSE]
         [] o = "throw" -> jr
  ELSE IF DispatchFails(o)
       THEN [jr EXCEPT !.emailSent = FALSE]
       ELSE [jr EXCEPT !.emailSent = TRUE]

\* jsonResponse after the "only send email if allowed" block
AfterDispatch(v, jr, o) ==
  IF v = "ServerJs"
  THEN CASE o = "ok" -> [jr EXCEPT !.emailSent = TRUE]
         [] o = "non2xx" -> [jr EXCEPT !.success = FALSE, !.emailSent = FALSE]
         [] o = "throw" -> [jr EXCEPT !.success = FALSE]
  ELSE IF DispatchFails(o)
       THEN [jr EXCEPT !.success = FALSE, !.emailSent = FALSE]
       ELSE [jr EXCEPT !.emailSent = TRUE]

DispatchErrorMessage(v, o) ==
  CASE v = "Nodemailer" -> "Failed to send email"
    [] v = "ResendOnly" /\ o = "non2xx" -> "Failed to send email via Resend"
    [] v = "ResendOnly" /\ o = "throw" -> "Resend API request failed"
    [] o = "non2xx" -> "Failed to send email"
    [] OTHER -> "Email send failed"

\* the Resend call (transporter.sendMail in the SMTP version) settles
DispatchReturn(o) ==
  /\ UNCHANGED <<healthzResponse, logSettled, logRetries, other>>
  /\ pc = "dispatch"
  /\ variant = "Nodemailer" => o # "non2xx"
  /\ dispatchRes' = o
  /\ UNCHANGED <<variant, MODE, recaptchaEnabled, toggles, reqCount, body,
                 captchaBranch, captchaRes, fetches, aiConfig, aiOut, calls,
                 toggleResponse, served, handled>>
  /\ IF variant \in ToggleVariants
     THEN /\ jsonResponse' = AfterDispatch(variant, jsonResponse, o)
          /\ Respond(200, JsonBody(jsonResponse'))
     ELSE /\ UNCHANGED jsonResponse
          /\ IF DispatchFails(o)
             THEN Respond(500, ErrorBody(DispatchErrorMessage(variant, o)))
             ELSE Respond(200, [success |-> TRUE, emailSent |-> TRUE])

\* the handler has returned (or thrown): its locals are released and the
\* server waits for the next request
Release ==
  /\ UNCHANGED <<healthzResponse, logSettled, logRetries, other>>
  /\ pc \in {"done", "escaped"}
  /\ pc' = "idle"
  /\ body' = NoBody
  /\ captchaBranch' = "none"
  /\ calls' = <<>>
  /\ captchaRes' = NoCaptcha
  /\ fetches' = NoFetches
  /\ aiConfig' = NoConfig
  /\ aiOut' = NoClassifier
  /\ jsonResponse' = NoJson
  /\ dispatchRes' = "none"
  /\ responses' = <<>>
  /\ served' = NoServed
  /\ UNCHANGED <<variant, MODE, recaptchaEnabled, toggles, reqCount,
                 toggleResponse, handled>>

FlipOff(flag) == FALSE

\* !recaptchaEnabled
Flip(flag) == ~flag

\* POST /api/toggle-recaptcha
ToggleRecaptcha ==
  /\ UNCHANGED <<healthzResponse, logSettled, logRetries, other>>
  /\ variant \in ToggleVariants
  /\ toggles < MaxToggles
  /\ recaptchaEnabled' = Flip(recaptchaEnabled)
  /\ toggleResponse' = [sent |-> TRUE, recaptchaEnabled |-> recaptchaEnabled']
  /\ toggles' = toggles + 1
  /\ UNCHANGED <<variant, MODE, reqCount, pc, body, captchaBranch, calls,
                 captchaRes, fetches, aiConfig, aiOut, jsonResponse,
                 dispatchRes, responses, served, handled>>

HealthzResetsFlag ==
  /\ healthzResponse' = "OK"
  /\ recaptchaEnabled' = TRUE
  /\ UNCHANGED <<variant, MODE, toggles, reqCount, pc, body,
                 captchaBranch, calls, captchaRes, fetches, aiConfig, aiOut,
                 jsonResponse, dispatchRes, responses, toggleResponse,
                 served, handled, logSettled, logRetries, other>>

\* GET /healthz
Healthz ==
  /\ healthzResponse' = "OK"
  /\ UNCHANGED <<variant, MODE, recaptchaEnabled, toggles, reqCount, pc, body,
                 captchaBranch, calls, captchaRes, fetches, aiConfig, aiOut,
                 jsonResponse, dispatchRes, responses, toggleResponse,
                 served, handled, logSettled, logRetries, other>>

\* ------------------------------------------------------------- log shipper
\* console.log / console.warn / console.error calls src/server.js has made so
\* far: the listen callback's line, and the lines of the contact request
ConsoleCalls ==
  LET captchaLines ==
        CASE captchaBranch = "verify" ->
               2 + (IF captchaRes = NoCaptcha THEN 0
                    ELSE IF CaptchaThrows(captchaRes) THEN 2
                    ELSE IF ~captchaRes.success THEN 3
                    ELSE 2)
          [] captchaBranch \in {"lab", "disabled"} -> 1
          [] OTHER -> 0
      policyLines ==
        IF \E w \in {"model", "rule"} : FetchThrows(variant, fetches[w])
        THEN 1 ELSE 0
      \* the reply is logged, then the parse error, the decision, or (a null
      \* answer) the outer catch's line
      classifierLines ==
        IF aiOut = NoClassifier THEN 0
        ELSE IF ClassifierThrows(variant, aiOut) THEN 1
        ELSE 2
      dispatchLines == IF dispatchRes \in {"non2xx", "throw"} THEN 1 ELSE 0
  IN 1 + captchaLines + policyLines + classifierLines + dispatchLines

\* log POSTs sent and not yet settled: the hook sends one per console call
LogInFlight == ConsoleCalls + logRetries - logSettled

\* a log POST is answered (node-fetch resolves whatever the status)
LogPostReturn ==
  /\ variant = "ServerJs"
  /\ LogInFlight > 0
  /\ logSettled' = logSettled + 1
  /\ UNCHANGED <<variant, MODE, recaptchaEnabled, toggles, reqCount, pc, body,
                 captchaBranch, calls, captchaRes, fetches, aiConfig, aiOut,
                 jsonResponse, dispatchRes, responses, toggleResponse,
                 served, handled, healthzResponse, logRetries, other>>

LogPostThrowsUncaught ==
  /\ variant = "ServerJs"
  /\ LogInFlight > 0
  /\ logRetries < MaxLogRetries
  /\ logSettled' = logSettled + 1
  /\ logRetries' = logRetries + 1
  /\ pc' = "escaped"
  /\ UNCHANGED <<variant, MODE, recaptchaEnabled, toggles, reqCount, body,
                 captchaBranch, calls, captchaRes, fetches, aiConfig, aiOut,
                 jsonResponse, dispatchRes, responses, toggleResponse,
                 served, handled, healthzResponse, other>>

\* a log POST rejects: sendLog's catch calls console.error, which is the
\* hooked one and sends a further POST
LogPostThrows ==
  /\ variant = "ServerJs"
  /\ LogInFlight > 0
  /\ logRetries < MaxLogRetries
  /\ logSettled' = logSettled + 1
  /\ logRetries' = logRetries + 1
  /\ UNCHANGED <<variant, MODE, recaptchaEnabled, toggles, reqCount, pc, body,
                 captchaBranch, calls, captchaRes, fetches, aiConfig, aiOut,
                 jsonResponse, dispatchRes, responses, toggleResponse,
                 served, handled, healthzResponse, other>>

Next ==
  \/ \E b \in Bodies : Receive(b)
  \/ \E o \in CaptchaOutcomes : CaptchaReturn(o)
  \/ \E w \in {"model", "rule"} : \E o \in FetchOutcomes :
       \E rev \in Revisions : PolicyFetchReturn(w, o, rev)
  \/ \E o \in ClassifierOutcomes : ClassifierReturn(o)
  \/ \E o \in DispatchOutcomes : DispatchReturn(o)
  \/ Release
  \/ ToggleRecaptcha

Spec == Init /\ [][Next]_vars

\* src/server.js alone
InitServer == Init /\ variant = "ServerJs"

\* its three routes: a contact request with toggle calls and health probes
\* arriving at any of its awaits
NextRoutes ==
  \/ \E b \in Bodies : Receive(b)
  \/ \E o \in CaptchaOutcomes : CaptchaReturn(o)
  \/ \E w \in {"model", "rule"} : \E o \in FetchOutcomes :
       \E rev \in Revisions : PolicyFetchReturn(w, o, rev)
  \/ \E o \in ClassifierOutcomes : ClassifierReturn(o)
  \/ \E o \in DispatchOutcomes : DispatchReturn(o)
  \/ ToggleRecaptcha
  \/ Healthz

SpecRoutes == InitServer /\ [][NextRoutes]_vars

\* ------------------------------------------------ two requests in flight
\* the handler locals of the request that is running
Context ==
  [pc |-> pc, body |-> body, captchaBranch |-> captchaBranch, calls |-> calls,
   captchaRes |-> captchaRes, fetches |-> fetches, aiConfig |-> aiConfig,
   aiOut |-> aiOut, jsonResponse |-> jsonResponse, dispatchRes |-> dispatchRes,
   responses |-> responses, served |-> served]

\* the locals of a handler that is not running
IdleContext ==
  [pc |-> "idle", body |-> NoBody, captchaBranch |-> "none", calls |-> <<>>,
   captchaRes |-> NoCaptcha, fetches |-> NoFetches, aiConfig |-> NoConfig,
   aiOut |-> NoClassifier, jsonResponse |-> NoJson, dispatchRes |-> "none",
   responses |-> <<>>, served |-> NoServed]

SwitchSharingBranch ==
  /\ pc # "idle" \/ other.pc # "idle"
  /\ other' = IF pc = "idle" THEN NoRequest ELSE Context
  /\ LET o == IF other.pc = "idle" THEN IdleContext ELSE other
     IN /\ pc' = o.pc
        /\ body' = o.body
        /\ captchaBranch' = captchaBranch
        /\ calls' = o.calls
        /\ captchaRes' = o.captchaRes
        /\ fetches' = o.fetches
        /\ aiConfig' = o.aiConfig
        /\ aiOut' = o.aiOut
        /\ jsonResponse' = o.jsonResponse
        /\ dispatchRes' = o.dispatchRes
        /\ responses' = o.responses
        /\ served' = o.served
  /\ UNCHANGED <<variant, MODE, recaptchaEnabled, toggles, reqCount,
                 toggleResponse, handled, healthzResponse, logSettled,
                 logRetries>>

\* the running handler is suspended at an await (or has returned) and the
\* event loop runs the other request's handler: each has its own locals
Switch ==
  /\ pc # "idle" \/ other.pc # "idle"
  /\ other' = IF pc = "idle" THEN NoRequest ELSE Context
  /\ LET o == IF other.pc = "idle" THEN IdleContext ELSE other
     IN /\ pc' = o.pc
        /\ body' = o.body
        /\ captchaBranch' = o.captchaBranch
        /\ calls' = o.calls
        /\ captchaRes' = o.captchaRes
        /\ fetches' = o.fetches
        /\ aiConfig' = o.aiConfig
        /\ aiOut' = o.aiOut
        /\ jsonResponse' = o.jsonResponse
        /\ dispatchRes' = o.dispatchRes
        /\ responses' = o.responses
        /\ served' = o.served
  /\ UNCHANGED <<variant, MODE, recaptchaEnabled, toggles, reqCount,
                 toggleResponse, handled, healthzResponse, logSettled,
                 logRetries>>

\* submissions and external results the two concurrent requests draw from
TwoBodies ==
  { b \in Bodies : /\ b.name = "Bo"
                   /\ b.email = Str(<<"b","o","@","e","x",".","c","o">>)
                   /\ b.message = [type |-> "string", length |-> MAX_MESSAGE_LENGTH] }

TwoCaptchaOutcomes == { o \in CaptchaOutcomes : ~o.hasScore }

TwoClassifierOutcomes ==
  { o \in ClassifierOutcomes :
      /\ o.net \in {"ok", "throw"}
      /\ o.content.text \in {"", "{\"decision\":\"ALLOW\"}", "DENY"}
      /\ ~o.content.fence }

\* src/server.js with two contact requests in flight at once and toggle
\* calls arriving at any await
NextTwo ==
  \/ \E b \in TwoBodies : Receive(b)
  \/ \E o \in TwoCaptchaOutcomes : CaptchaReturn(o)
  \/ \E w \in {"model", "rule"} : \E o \in {"ok", "throw"} :
       PolicyFetchReturn(w, o, 1)
  \/ \E o \in TwoClassifierOutcomes : ClassifierReturn(o)
  \/ \E o \in DispatchOutcomes : DispatchReturn(o)
  \/ Release
  \/ ToggleRecaptcha
  \/ Switch

SpecTwo == InitServer /\ [][NextTwo]_vars

\* its contact handler with the console hook of the logger module it
\* requires, for one contact request
NextLogger ==
  \/ \E b \in Bodies : Receive(b)
  \/ \E o \in CaptchaOutcomes : CaptchaReturn(o)
  \/ \E w \in {"model", "rule"} : \E o \in FetchOutcomes :
       \E rev \in Revisions : PolicyFetchReturn(w, o, rev)
  \/ \E o \in ClassifierOutcomes : ClassifierReturn(o)
  \/ \E o \in DispatchOutcomes : DispatchReturn(o)
  \/ LogPostReturn
  \/ LogPostThrows

SpecLogger == InitServer /\ [][NextLogger]_vars


\* ------------------------------------------------- vocabulary of the claims
Terminal == pc \in {"done", "escaped"}

Called(stage) == \E i \in 1..Len(calls) : calls[i] = stage

Answered == pc = "done" /\ Len(responses) = 1

StatusIs(s) == Answered /\ responses[1].status = s

ErrorIs(msg) ==
  /\ Answered
  /\ "error" \in DOMAIN responses[1].body
  /\ responses[1].body.error = msg

\* a boolean field of the response body, when the body has it
BodyHas(f, val) ==
  /\ Answered
  /\ f \in DOMAIN responses[1].body
  /\ responses[1].body[f] = val

\* name, email and message are all given
FieldsPresent(b) ==
  ~FalsyStr(b.name) /\ ~FalsyEmail(b.email) /\ ~FalsyMessage(b.message)

\* the domain of an address: what follows its last "@", in lower case
DomainOf(s) ==
  IF AtPositions(s) = {} THEN <<>>
  ELSE LET last == CHOOSE i \in AtPositions(s) : \A j \in AtPositions(s) : j <= i
       IN [k \in 1..(Len(s) - last) |-> Lower(s[last + k])]

ShapeOk(e) == validateEmailFormat(e)

Disposable(e) == DomainOf(e.text) \in disposableDomains

PassedValidation(b) ==
  /\ FieldsPresent(b)
  /\ ShapeOk(b.email)
  /\ ~Disposable(b.email)
  /\ b.message.length <= MAX_MESSAGE_LENGTH

\* the verification service answered success with an acceptable score
CaptchaPassed(o) == o.net = "ok" /\ o.bodyOk /\ ~CaptchaRejects(o)

\* captcha verification is enabled for the current request
CaptchaEnabled == captchaBranch = "verify"

\* the decision a reply carries, as the specification reads replies
SpecDecision(c) ==
  IF ~c.defined THEN "MALFORMED"
  ELSE LET t == trim(c.text)
           j == JSONParse(t)
       IN IF ~c.fence /\ t \in {"ALLOW", "DENY"} THEN t
          ELSE IF j.kind = "object" /\ j.decision \in {"ALLOW", "DENY"} THEN j.decision
          ELSE "MALFORMED"

\* the classifier answered with a readable body
Replied == aiOut.net = "ok" /\ aiOut.bodyOk


\* ------------------------------------------------------------------ claims
\* C1: a mail-dispatch request is issued for a submission only if it passed
\* field, email and length validation, passed captcha verification whenever
\* captcha verification is enabled, and the classifier decided ALLOW.
C1_DispatchOnlyAfterAllGates ==
  Called("dispatch") =>
    /\ PassedValidation(body)
    /\ CaptchaEnabled => CaptchaPassed(captchaRes)
    /\ Replied /\ SpecDecision(aiOut.content) = "ALLOW"

\* C2: in the versions with the toggle flag, when verification is enabled and
\* the verification response reports success=false or a score below 0.5, the
\* request ends with a 400 response and no policy fetch, classifier call or
\* mail dispatch is made for it.
C2_CaptchaRejectionEnds400 ==
  ( /\ variant \in ToggleVariants
    /\ CaptchaEnabled
    /\ captchaRes.net = "ok" /\ captchaRes.bodyOk
    /\ CaptchaRejects(captchaRes) )
  => /\ StatusIs(400)
     /\ calls = <<"captcha">>

\* C3: for every classifier reply that is neither the bare token ALLOW or
\* DENY nor a JSON object whose decision is exactly ALLOW or DENY, the handler
\* responds with status 500 and never calls the mail dispatcher.
C3_MalformedReplyIs500 ==
  ( /\ variant \in ClassifierVariants
    /\ Replied
    /\ SpecDecision(aiOut.content) = "MALFORMED" )
  => /\ StatusIs(500)
     /\ ~Called("dispatch")

\* C4: when a valid submission passes captcha and the classifier's decision
\* is DENY, the handler responds with status 422 and emailSent false, and the
\* mail dispatcher is never called for that request.
C4_DenyIs422 ==
  ( /\ variant \in ToggleVariants
    /\ PassedValidation(body)
    /\ CaptchaEnabled => CaptchaPassed(captchaRes)
    /\ Replied
    /\ SpecDecision(aiOut.content) = "DENY" )
  => /\ StatusIs(422)
     /\ ~BodyHas("emailSent", TRUE)
     /\ ~Called("dispatch")

\* C5: for every request body and every combination of external-call
\* outcomes, a request that has come to its end has emitted exactly one
\* response: never zero and never two.
C5_ExactlyOneResponse ==
  Terminal => Len(responses) = 1


\* C6: in the versions with the unified jsonResponse, a submission that passes
\* validation and captcha, is classified ALLOW and whose dispatch succeeds
\* yields a body with success=true and emailSent=true; one classified ALLOW
\* whose dispatch fails (non-2xx reply or transport exception) yields
\* success=false and emailSent=false while the body still reports aiDecision
\* ALLOW.
C6_DispatchOutcomeInBody ==
  ( /\ variant \in ToggleVariants
    /\ pc = "done"
    /\ PassedValidation(body)
    /\ CaptchaEnabled => CaptchaPassed(captchaRes)
    /\ Replied /\ SpecDecision(aiOut.content) = "ALLOW"
    /\ dispatchRes # "none" )
  => /\ Len(responses) = 1
     /\ dispatchRes = "ok" =>
          BodyHas("success", TRUE) /\ BodyHas("emailSent", TRUE)
     /\ dispatchRes \in {"non2xx", "throw"} =>
          /\ BodyHas("success", FALSE)
          /\ BodyHas("emailSent", FALSE)
          /\ BodyHas("aiDecision", "ALLOW")

\* an approved submission whose Resend call threw has been answered
C6_Witness ==
  /\ variant = "ServerJs"
  /\ pc = "done"
  /\ PassedValidation(body)
  /\ CaptchaEnabled /\ CaptchaPassed(captchaRes)
  /\ Replied /\ SpecDecision(aiOut.content) = "ALLOW"
  /\ dispatchRes = "throw"
  /\ BodyHas("aiDecision", "ALLOW")

\* C7: the handler responds with status 200 if and only if the email was
\* dispatched successfully (body success=true and emailSent=true); a
\* mail-dispatch failure, a classifier failure, a policy-fetch failure and a
\* captcha-service outage each yield status 500, and a classifier rejection
\* yields 422.
C7_StatusClassification ==
  (variant \in ToggleVariants /\ Answered) =>
    /\ StatusIs(200) <=>
         ( /\ dispatchRes = "ok"
           /\ BodyHas("success", TRUE)
           /\ BodyHas("emailSent", TRUE) )
    /\ dispatchRes \in {"non2xx", "throw"} => StatusIs(500)
    /\ aiOut.net \in {"throw", "non2xx"} \/ (aiOut.net = "ok" /\ ~aiOut.bodyOk)
         => StatusIs(500)
    /\ (\E w \in {"model", "rule"} : fetches[w] \in {"non2xx", "throw"})
         => StatusIs(500)
    /\ captchaRes.net = "throw" \/ (captchaRes.net = "ok" /\ ~captchaRes.bodyOk)
         => StatusIs(500)
    /\ Replied /\ SpecDecision(aiOut.content) = "DENY" => StatusIs(422)

\* C8: in the version of part_002 a valid submission that passes captcha and
\* receives the classifier reply "ALLOW" goes on to the mail dispatch, and
\* ends with a 200 response {success:true, emailSent:true} when that dispatch
\* succeeds.
C8_AllowReachesDispatch ==
  ( /\ variant = "Part002"
    /\ PassedValidation(body)
    /\ CaptchaPassed(captchaRes)
    /\ Replied
    /\ aiOut.content.defined /\ ~aiOut.content.fence
    /\ aiOut.content.text = "ALLOW" )
  => /\ Called("dispatch")
     /\ pc = "done" /\ dispatchRes = "ok" =>
          /\ StatusIs(200)
          /\ BodyHas("success", TRUE)
          /\ BodyHas("emailSent", TRUE)

\* C9: for every submission in which name, email or message is absent or
\* empty, the handler responds with the 400 missing-fields error and issues
\* no external call.
C9_MissingFieldNoCall ==
  (pc # "idle" /\ ~FieldsPresent(body))
  => /\ StatusIs(400)
     /\ ErrorIs("Missing fields")
     /\ calls = <<>>

\* a submission with only its message empty has been answered
C9_Witness ==
  /\ pc # "idle"
  /\ pc = "done"
  /\ ~FalsyStr(body.name)
  /\ ~FalsyEmail(body.email)
  /\ ~FalsyStr(body.recaptchaToken)
  /\ body.message = [type |-> "string", length |-> 0]
  /\ ErrorIs("Missing fields")

AllFieldsPresent(b) == FieldsPresent(b) /\ ~FalsyStr(b.recaptchaToken)

C12_TokenOptionalWhenDisabled ==
  [][ ( /\ variant \in ToggleVariants
        /\ reqCount' = reqCount + 1
        /\ ~recaptchaEnabled \/ MODE = "LAB"
        /\ FieldsPresent(body')
        /\ FalsyStr(body'.recaptchaToken) )
      => ~(ErrorIs("Missing fields"))' ]_vars

\* the verification call rejected or its body could not be parsed
CaptchaOutage(o) == o.net = "throw" \/ (o.net = "ok" /\ ~o.bodyOk)

\* C13: in the versions with the toggle flag, when verification is enabled and
\* the call to the verification endpoint throws or returns an unparseable
\* body, the request ends with a 500 response and no later stage runs (no
\* policy fetch, classifier call or dispatch).
C13_CaptchaOutageIs500 ==
  ( /\ variant \in ToggleVariants
    /\ CaptchaEnabled
    /\ CaptchaOutage(captchaRes) )
  => /\ StatusIs(500)
     /\ calls = <<"captcha">>

\* a policy fetch ended in a transport exception or a non-success reply
FetchFailed(w) == fetches[w] \in {"non2xx", "throw"}

\* C14: once the policy stage is over, if either of the two policy fetches
\* failed, by transport exception or by a non-success HTTP reply, the handler
\* has responded with 500 and issues no classifier call and no dispatch; the
\* classifier is called only when both fetches succeeded.
C14_PolicyFailureIs500 ==
  variant \in ToggleVariants =>
    /\ ( pc # "policy" /\ (FetchFailed("model") \/ FetchFailed("rule")) )
         => /\ StatusIs(500)
            /\ ~Called("classifier")
            /\ ~Called("dispatch")
    /\ Called("classifier") => fetches.model = "ok" /\ fetches.rule = "ok"

\* C16: for a submission that passed validation, the verification endpoint is
\* called exactly when the recaptchaEnabled flag is true and the operating
\* mode is not LAB: the captcha stage is skipped only when the flag has been
\* toggled off or the mode is LAB, never for another configuration value.
C16_CaptchaCalledUnlessOffOrLab ==
  [][ ( /\ variant \in ToggleVariants
        /\ reqCount' = reqCount + 1
        /\ pc' \in {"captcha", "policy"} )
      => ( Called("captcha")' <=> (recaptchaEnabled /\ MODE # "LAB") ) ]_vars

\* position of a stage in the pipeline
StageRank(stage) ==
  CASE stage = "captcha" -> 1
    [] stage = "model" -> 2
    [] stage = "rule" -> 3
    [] stage = "classifier" -> 4
    [] stage = "dispatch" -> 5

\* the completion call rejected, answered non-2xx, or had an unreadable body
ClassifierFailed(o) ==
  o.net \in {"throw", "non2xx"} \/ (o.net = "ok" /\ ~o.bodyOk)

\* C18: within one request each external service is called at most once, the
\* calls occur in the order captcha, policy fetch, classifier, dispatch, and
\* after any external call fails no further external call is made.
C18_OnceInOrderStopOnFailure ==
  /\ \A i, j \in 1..Len(calls) :
       i < j => StageRank(calls[i]) < StageRank(calls[j])
  /\ CaptchaOutage(captchaRes) => calls = <<"captcha">>
  /\ ( pc # "policy" /\ (FetchFailed("model") \/ FetchFailed("rule")) )
       => ~Called("classifier")
  /\ ClassifierFailed(aiOut) => ~Called("dispatch")

\* C19: the two policy fetches are both issued before either one's completion
\* is awaited, and the classifier call is issued only after both have
\* completed, in whichever order the two fetches complete or fail.
C19_PolicyFetchesJoined ==
  variant \in ToggleVariants =>
    /\ Called("model") <=> Called("rule")
    /\ fetches.model # "none" <=> fetches.rule # "none"
    /\ Called("classifier") =>
         \A w \in {"model", "rule"} : fetches[w] \notin {"none", "pending"}

\* the prompt fetch has completed while the model fetch is still in flight
C19_Witness ==
  /\ variant \in ToggleVariants
  /\ pc = "policy"
  /\ fetches.rule = "ok"
  /\ fetches.model = "pending"
  /\ ~Called("classifier")

\* C15: every toggle call negates the process-wide flag and answers with the
\* value after the flip; starting from true, after n toggle calls interleaved
\* with contact requests the flag is true exactly when n is even.
C15_ToggleParity ==
  /\ recaptchaEnabled = (toggles % 2 = 0)
  /\ toggleResponse.sent = (toggles > 0)
  /\ toggleResponse.sent => toggleResponse.recaptchaEnabled = recaptchaEnabled

\* two toggles around a request in flight, a second request already served
C15_Witness ==
  /\ toggles = 2
  /\ recaptchaEnabled
  /\ toggleResponse = [sent |-> TRUE, recaptchaEnabled |-> TRUE]
  /\ reqCount = 2
  /\ pc = "policy"
  /\ captchaBranch = "disabled"

\* C17: a bare-token reply ALLOW (resp. DENY) is handled like a JSON reply
\* with that decision, fenced or bare: same next stage, same status and
\* success/emailSent fields. Every reply carrying one decision has therefore
\* been handled in one single way.
C17_ReplyShapesHandledAlike ==
  variant \in ToggleVariants =>
    \A d \in {"ALLOW", "DENY"} : Cardinality(handled[d]) <= 1

\* C20: no policy is carried over between requests: before both fetches of a
\* request have settled the request holds no policy, and the policy its
\* classifier call is sent with is the content those two fetches returned
\* (less the final newline), whichever revision of the documents that was.
C20_PolicyFromThisRequest ==
  variant \in ToggleVariants =>
    /\ pc \in {"idle", "captcha", "policy"} => aiConfig = NoConfig
    /\ Called("classifier") =>
         \A w \in {"model", "rule"} :
           \/ served[w] = aiConfig[w] \o <<"\n">>
           \/ served[w] = aiConfig[w] /\ served[w] = <<"404: Not Found">>

\* a second request classifies with a newer revision of the model document
C20_Witness ==
  /\ variant \in ToggleVariants
  /\ reqCount = 2
  /\ Called("classifier")
  /\ served.model = <<"model", "2", "\n">>
  /\ aiConfig = [model |-> <<"model", "2">>, rule |-> <<"rule", "1">>]

\* C21: every contact response that does not report success (anything other
\* than success = true with emailSent = true, a classifier rejection and a
\* dispatch failure included) carries an error field.
C21_FailureCarriesError ==
  (variant \in ToggleVariants /\ Answered
     /\ ~(BodyHas("success", TRUE) /\ BodyHas("emailSent", TRUE)))
  => "error" \in DOMAIN responses[1].body

\* C25: POST /api/contact and GET /healthz leave the recaptchaEnabled flag
\* unchanged on every path; only POST /api/toggle-recaptcha writes it: every
\* step that changes the flag is a toggle call, and a step that is a contact
\* step or a health probe keeps the flag.
C25_OnlyToggleWritesFlag ==
  [][/\ recaptchaEnabled' # recaptchaEnabled =>
          /\ toggles' = toggles + 1
          /\ toggleResponse' = [sent |-> TRUE, recaptchaEnabled |-> recaptchaEnabled']
          /\ UNCHANGED <<pc, calls, responses, healthzResponse>>
     /\ (pc' # pc \/ calls' # calls \/ responses' # responses
           \/ healthzResponse' # healthzResponse)
        => recaptchaEnabled' = recaptchaEnabled]_vars

\* a probe answered and a request finished with mail sent while the flag is
\* off after one toggle
C25_Witness ==
  /\ healthzResponse = "OK"
  /\ toggles = 1
  /\ ~recaptchaEnabled
  /\ Answered
  /\ BodyHas("emailSent", TRUE)

\* C23: the log shipper quiesces: a log POST that settles, failed ones
\* included, never triggers a further log POST, so the POSTs sent never
\* outnumber the application's console calls.
C23_FailedSendSendsNoMore ==
  [][logSettled' = logSettled + 1 =>
       /\ LogInFlight' = LogInFlight - 1
       /\ logSettled' + LogInFlight' <= ConsoleCalls']_vars

\* C24: the contact flow is independent of the log sink: a log POST that is
\* answered or rejects changes nothing of the contact request (its stage, its
\* external calls, their results, its response) nor the flag, and whatever
\* the number of log POSTs still in flight the handler's next step can be
\* taken as soon as the external call it waits for settles.
C24_ContactFlowIgnoresLogSink ==
  [][/\ logSettled' # logSettled =>
          UNCHANGED <<recaptchaEnabled, pc, body, captchaBranch, calls,
                      captchaRes, fetches, aiConfig, aiOut, jsonResponse,
                      dispatchRes, responses, served>>
     /\ pc = "captcha" => ENABLED (\E o \in CaptchaOutcomes : CaptchaReturn(o))
     /\ pc = "policy" =>
          ENABLED (\E w \in {"model", "rule"} :
                     PolicyFetchReturn(w, "ok", 1) \/ PolicyFetchReturn(w, "throw", 1))
     /\ pc = "classifier" => ENABLED (\E o \in ClassifierOutcomes : ClassifierReturn(o))
     /\ pc = "dispatch" => ENABLED (\E o \in DispatchOutcomes : DispatchReturn(o))]_vars

\* the request was answered with the mail sent while log POSTs had failed
\* and others had still not completed
C24_Witness ==
  /\ Answered
  /\ BodyHas("emailSent", TRUE)
  /\ logRetries = MaxLogRetries
  /\ LogInFlight > 1

\* C22: with contact requests and toggle calls interleaved at the awaits, a
\* request reads recaptchaEnabled once, in the step that receives and
\* validates it; a toggle while it is suspended changes neither request, so
\* whether a request verifies the captcha is what was decided at its receipt;
\* and a step of one request leaves the other request's locals as they were.
C22_FlagReadOnceAtReceipt ==
  [][/\ (pc = "idle" /\ pc' \in {"captcha", "policy"} /\ other' = other) =>
          /\ (captchaBranch' = "verify") = (recaptchaEnabled /\ MODE = "SECURE")
          /\ (pc' = "captcha") = (captchaBranch' = "verify")
     /\ toggles' # toggles =>
          /\ other' = other
          /\ UNCHANGED <<pc, body, captchaBranch, calls, captchaRes, fetches,
                         aiOut, dispatchRes, responses>>
     /\ (pc # "idle" /\ pc' # "idle" /\ other' = other) =>
          captchaBranch' = captchaBranch
     /\ other' # other =>
          /\ other' = IF pc = "idle" THEN NoRequest ELSE Context
          /\ Context' = IF other.pc = "idle" THEN IdleContext ELSE other
          /\ recaptchaEnabled' = recaptchaEnabled
     /\ pc # "idle" => (Called("captcha") = (captchaBranch = "verify"))
     /\ other.pc # "idle" =>
          ((\E i \in 1..Len(other.calls) : other.calls[i] = "captcha")
             = (other.captchaBranch = "verify"))]_vars

\* two requests in flight around one toggle: the earlier one verified the
\* captcha, the later one skipped it, both now wait for the policy
C22_Witness ==
  /\ toggles = 1
  /\ other.pc = "policy"
  /\ other.captchaBranch = "verify"
  /\ pc = "policy"
  /\ captchaBranch = "disabled"
  /\ ~Called("captcha")

====
